---- MODULE Spec2Model ----
(***************************************************************************)
(* Model of the study-room coordinator of src/script.js: the StudyRoom     *)
(* object (createRoom, joinRoom, initializePeer, connectToPeer, handleCall,*)
(* handleConnection, sendMessage, stopMedia) and the leave/create/join     *)
(* click handlers of UI.initializeStudyRoomEvents, and the event bus       *)
(* `events` (on, off, emit) with the subscribers UI.renderStudyRoom adds.  *)
(*                                                                         *)
(* One action is one callback of the JavaScript event loop, run to         *)
(* completion.  A continuation that the code reaches through an await on   *)
(* an already settled promise is a microtask: it is a separate action that *)
(* runs before any other callback (see Quiescent).                         *)
(***************************************************************************)
EXTENDS Integers, Sequences, FiniteSets, TLC

VARIABLES
    roomCode,     \* StudyRoom.roomCode: NoCode or a sequence of characters
    localStream,  \* StudyRoom.localStream: NoStream or a stream id
    peer,         \* StudyRoom.peer: "null", or the state of the Peer object it holds
    peers,        \* StudyRoom.peers: Map peerId -> call, a sequence of <<key, call id>>
    connections,  \* StudyRoom.connections: Map peerId -> conn, a sequence of <<key, conn id>>
    calls,        \* the media calls created since the last leave: sequence of [peer, state]
    conns,        \* the data connections created since the last leave: sequence of [peer, state]
    liveStreams,  \* capture streams with a track that has not been stopped
    tasks,        \* the createRoom()/joinRoom() invocations in flight
    renders,      \* number of times UI.renderStudyRoom has run
    emitted,      \* events passed to events.emit by the last callback, in order
    delivered,    \* data connections that received the payload of the last sendMessage
    published,    \* history: the event types emitted so far for each call and
                  \* each data connection of calls and conns, and the pending
                  \* channels that are older than a close of their peer (stale),
                  \* and the channels the last leave did not close (left)
    listeners,    \* events.listeners: event name -> Set of callbacks, a sequence in
                  \* insertion order for each name that has a Set
    invoked,      \* the subscriber callbacks run by the events.emit calls of the
                  \* last callback, in order, each with the data it was given
    syncQueue,    \* the 'syncQueue' object store: a set of entries keyed by id
    syncRuns,     \* the saveTask()/deleteTask()/syncTasks() invocations in flight
    entryIds      \* number of ids generated for syncQueue entries

vars == <<roomCode, localStream, peer, peers, connections, calls, conns,
          liveStreams, tasks, renders, emitted, delivered, published,
          listeners, invoked, syncQueue, syncRuns, entryIds>>

\* the offline queue of TaskManager, which the study room never touches
offline == <<syncQueue, syncRuns, entryIds>>

----------------------------------------------------------------------------
(* Bounds of the model *)

NumPeers == 2        \* remote participants
MaxCalls == 2        \* media calls created between two leaves
MaxConns == 2        \* data connections created between two leaves
MaxTasks == 1        \* createRoom/joinRoom invocations that have not completed
MaxStreams == 2      \* capture streams live at the same time
MaxRenders == 3      \* runs of UI.renderStudyRoom
MaxCodeLen == 3      \* length of the codes typed into joinRoom in CodeSpec

(* Program constants *)

CodeLen == 6         \* slice(0, 6) in createRoom

PeerIds == 1..NumPeers
TaskIds == 1..MaxTasks
StreamIds == 1..MaxStreams

NoCode == <<"null">>
NoStream == 0
NoPeer == 0

----------------------------------------------------------------------------
(* Strings are sequences of one-character strings. *)

LowerLetters == <<"a", "b", "c", "d", "e", "f", "z">>
UpperLetters == <<"A", "B", "C", "D", "E", "F", "Z">>
Digits == {"0", "1", "2", "3", "4", "5", "6", "7", "8", "9"}

IsLower(ch) == \E i \in 1..Len(LowerLetters) : LowerLetters[i] = ch
IsUpper(ch) == \E i \in 1..Len(UpperLetters) : UpperLetters[i] = ch

\* String.prototype.toUpperCase on one character
ToUpperChar(ch) ==
    IF IsLower(ch)
    THEN UpperLetters[CHOOSE i \in 1..Len(LowerLetters) : LowerLetters[i] = ch]
    ELSE ch

ToUpperCaseFirst(s) == [i \in 1..Len(s) |-> IF i = 1 THEN ToUpperChar(s[i]) ELSE s[i]]

\* String.prototype.toUpperCase
ToUpperCase(s) == [i \in 1..Len(s) |-> ToUpperChar(s[i])]

Min(a, b) == IF a < b THEN a ELSE b

\* String.prototype.slice(from, to) for 0 <= from <= to
Slice(s, from, to) == SubSeq(s, from + 1, Min(to, Len(s)))

\* crypto.randomUUID(): 8-4-4-4-12 lowercase hexadecimal digits; the groups
\* after the first are fixed here, the first group is given by prefix
UuidTail ==
    <<"-", "0", "0", "0", "0", "-", "4", "0", "0", "0", "-", "8", "0", "0", "0",
      "-", "0", "0", "0", "0", "0", "0", "0", "0", "0", "0", "0", "0">>

Uuid(prefix) == prefix \o UuidTail

\* identifiers utils.generateId can return, used by CodeSpec
AllIds == { Uuid(p \o <<"1", "e">>) : p \in [1..6 -> {"0", "a", "f"}] }

\* identifiers utils.generateId returns in Spec
SampleIds == { Uuid(<<"a", "3", "f", "0", "9", "c", "1", "e">>) }

CodeChars == {"a", "z", "B", "7"}

\* codes typed into the join dialog, used by CodeSpec
AllCodes == UNION { [1..n -> CodeChars] : n \in 0..MaxCodeLen }

\* codes typed into the join dialog in Spec
SampleCodes == { <<"a", "b", "1", "2", "c", "d">> }

RoomCodeNoUpper(id) == Slice(id, 0, CodeLen)

\* the room code createRoom derives from an identifier
RoomCodeOf(id) == ToUpperCase(Slice(id, 0, CodeLen))

----------------------------------------------------------------------------
(* Events.  src is a history field: the channel whose callback emitted the *)
(* event; the payload the subscribers see is the rest of the record.       *)

Event(type, peerId, sender, content, src) ==
    [type |-> type, peerId |-> peerId, sender |-> sender, content |-> content,
     src |-> src]

PeerEvent(type, peerId, src) == Event(type, peerId, "-", "-", src)

ChatEvent(sender, content, src) == Event("chat:message", NoPeer, sender, content, src)

\* the 'error' event of errorHandler
ErrorEvent == Event("error", NoPeer, "-", "-", <<"local", 0>>)

IsPeerEvent(ev) == ev.type \in {"peer:stream", "peer:connect", "peer:disconnect"}

\* AppState.user is null until a login, which is outside the coordinator
UserName == "?"

\* AppState.user?.name || 'Anonymous'
SenderName == IF UserName = "?" THEN "Anonymous" ELSE UserName

\* inbound payloads a remote peer may send
Payloads ==
    { [type |-> ty, sender |-> "bob", content |-> "yo"] : ty \in {"chat", "typing"} }

Texts == {"hi"}

----------------------------------------------------------------------------
(* The event bus `events`.  A callback is a function object: <<name, k>> is *)
(* the closure made for the handler `name` by the k-th evaluation of the    *)
(* expression that creates it.                                              *)

NumCallbacks == 3    \* callbacks that subscribe in BusSpec

BusCallbacks == { <<"cb", i>> : i \in 1..NumCallbacks }
BusEvents == {"chat:message", "peer:connect"}
BusData == {"d1", "d2"}

\* the Set events.listeners[event], empty when the name has none
Subscribers(ls, event) == IF event \in DOMAIN ls THEN ls[event] ELSE <<>>

InSeq(seq, x) == \E i \in 1..Len(seq) : seq[i] = x

OnAppend(ls, event, callback) ==
    [e \in DOMAIN ls \cup {event} |->
        IF e = event THEN Append(Subscribers(ls, event), callback) ELSE ls[e]]

\* events.on(event, callback): Set.prototype.add keeps one copy of a callback
On(ls, event, callback) ==
    [e \in DOMAIN ls \cup {event} |->
        IF e # event THEN ls[e]
        ELSE IF InSeq(Subscribers(ls, event), callback) THEN ls[event]
        ELSE Append(Subscribers(ls, event), callback)]

\* events.off(event, callback)
Off(ls, event, callback) ==
    IF event \in DOMAIN ls
    THEN [ls EXCEPT ![event] = SelectSeq(@, LAMBDA cb : cb # callback)]
    ELSE ls

Invocation(callback, data) == [callback |-> callback, data |-> data]

\* Set.prototype.forEach(callback => callback(data)): the callbacks run in
\* insertion order; one that throws ends the loop, the exception leaves emit
RECURSIVE ForEachCall(_, _, _)
ForEachCall(cbs, data, throwing) ==
    IF cbs = <<>> THEN <<>>
    ELSE IF Head(cbs) \in throwing THEN <<Invocation(Head(cbs), data)>>
    ELSE <<Invocation(Head(cbs), data)>> \o ForEachCall(Tail(cbs), data, throwing)

\* events.emit(event, data), with the callbacks that throw when they are called
EmitOp(ls, event, data, throwing) == ForEachCall(Subscribers(ls, event), data, throwing)

\* the closures UI.renderStudyRoom subscribes on its k-th run: the one of
\* initializeStudyRoomEvents first, then its own three
RenderStudyRoom(ls, k) ==
    LET l1 == On(ls, "media:initialized", <<"addLocalVideo", k>>)
        l2 == On(l1, "peer:stream", <<"addVideoStream", k>>)
        l3 == On(l2, "peer:disconnect", <<"removeVideoStream", k>>)
    IN  On(l3, "chat:message", <<"addChatMessage", k>>)

----------------------------------------------------------------------------
(* The part of the state the callbacks of StudyRoom work on, as one record: *)
(* the two maps, the transport's calls and connections, the events emitted  *)
(* so far by the running callback, the subscriber callbacks they ran and    *)
(* the connections the callback has sent to.                                *)

World ==
    [peers |-> peers, connections |-> connections, calls |-> calls,
     conns |-> conns, out |-> <<>>, ran |-> <<>>, sent |-> {}]

\* events.emit(event, data); the subscribers of the user interface return
Emit(w, ev) ==
    [w EXCEPT !.out = Append(@, ev),
              !.ran = @ \o EmitOp(listeners, ev.type, ev, {})]

MapHas(m, k) == \E i \in 1..Len(m) : m[i][1] = k

MapSetAppend(m, k, v) == Append(m, <<k, v>>)

\* Map.prototype.set: replaces the value of an existing key in place
MapSet(m, k, v) ==
    IF MapHas(m, k)
    THEN [i \in 1..Len(m) |-> IF m[i][1] = k THEN <<k, v>> ELSE m[i]]
    ELSE Append(m, <<k, v>>)

\* the value the map holds for key k, which it has
MapGet(m, k) == m[CHOOSE i \in 1..Len(m) : m[i][1] = k][2]

\* the map holds v for key k
Recorded(m, k, v) == MapHas(m, k) /\ MapGet(m, k) = v

\* Map.prototype.delete
MapDelete(m, k) == SelectSeq(m, LAMBDA e : e[1] # k)

\* call.on('stream', ...) of handleCall
OnCallStream(w, c) ==
    Emit(w, PeerEvent("peer:stream", w.calls[c].peer, <<"call", c>>))

OnCallCloseRemovesPeer(w, c) ==
    Emit([w EXCEPT !.connections = MapDelete(@, w.calls[c].peer)],
         PeerEvent("peer:disconnect", w.calls[c].peer, <<"call", c>>))

\* call.on('close', ...) of handleCall
OnCallClose(w, c) ==
    Emit(w, PeerEvent("peer:disconnect", w.calls[c].peer, <<"call", c>>))

\* the body of handleCall after the handlers are registered
HandleCall(w, c) == [w EXCEPT !.peers = MapSet(@, w.calls[c].peer, c)]

\* conn.on('open', ...) of handleConnection
OnConnOpen(w, c) ==
    Emit([w EXCEPT !.connections = MapSet(@, w.conns[c].peer, c)],
         PeerEvent("peer:connect", w.conns[c].peer, <<"conn", c>>))

\* conn.on('close', ...) of handleConnection
OnConnClose(w, c) ==
    Emit([w EXCEPT !.connections = MapDelete(@, w.conns[c].peer)],
         PeerEvent("peer:disconnect", w.conns[c].peer, <<"conn", c>>))

\* handleConnection registers handlers only
HandleConnection(w, c) == w

HandlePeerMessageAnyType(w, peerId, message, c) ==
    Emit(w, ChatEvent(message.sender, message.content, <<"conn", c>>))

\* handlePeerMessage(peerId, message): the switch on message.type
HandlePeerMessage(w, peerId, message, c) ==
    IF message.type = "chat"
    THEN Emit(w, ChatEvent(message.sender, message.content, <<"conn", c>>))
    ELSE w

\* conn.on('data', ...) of handleConnection
OnConnData(w, c, message) == HandlePeerMessage(w, w.conns[c].peer, message, c)

(* Transport Binding: peer.call and peer.connect create a channel object.   *)
(* Closing a call that is not closed yet, or a data connection that is     *)
(* open, fires its 'close' handler once, synchronously; a data connection  *)
(* that never opened is closed without an event.                           *)

TransportCall(w, p) ==
    [w EXCEPT !.calls = Append(@, [peer |-> p, state |-> "negotiating"])]

TransportConnect(w, p) ==
    [w EXCEPT !.conns = Append(@, [peer |-> p, state |-> "opening"])]

CloseCall(w, c) ==
    IF w.calls[c].state = "closed" THEN w
    ELSE OnCallClose([w EXCEPT !.calls[c].state = "closed"], c)

CloseConn(w, c) ==
    IF w.conns[c].state \in {"open", "lost"}
    THEN OnConnClose([w EXCEPT !.conns[c].state = "closed"], c)
    ELSE [w EXCEPT !.conns[c].state = "closed"]

RECURSIVE CloseCallsFrom(_, _)
CloseCallsFrom(w, c) ==
    IF c > Len(w.calls) THEN w ELSE CloseCallsFrom(CloseCall(w, c), c + 1)

RECURSIVE CloseConnsFrom(_, _)
CloseConnsFrom(w, c) ==
    IF c > Len(w.conns) THEN w ELSE CloseConnsFrom(CloseConn(w, c), c + 1)

\* peer.destroy(): closes every call and connection of the identity
Destroy(w) == CloseConnsFrom(CloseCallsFrom(w, 1), 1)

\* connectToPeer(peerId)
ConnectToPeerOp(w, p) ==
    LET w1 == TransportCall(w, p)
        w2 == HandleCall(w1, Len(w1.calls))
        w3 == TransportConnect(w2, p)
    IN  HandleConnection(w3, Len(w3.conns))

\* getRoomPeers()
GetRoomPeers == <<>>

\* the loop of connectToRoom
RECURSIVE ConnectToAll(_, _)
ConnectToAll(w, roomPeers) ==
    IF roomPeers = <<>> THEN w
    ELSE ConnectToAll(ConnectToPeerOp(w, Head(roomPeers)), Tail(roomPeers))

\* this.peers.forEach(peer => peer.close())
RECURSIVE CloseEach(_, _)
CloseEach(w, entries) ==
    IF entries = <<>> THEN w
    ELSE CloseEach(CloseCall(w, Head(entries)[2]), Tail(entries))

\* conn.send(data): an open connection carries the payload to its peer; on
\* another one the transport drops the payload and returns
Send(w, c) ==
    IF w.conns[c].state = "open" THEN [w EXCEPT !.sent = @ \cup {c}] ELSE w

RECURSIVE SendEachUntilFailure(_, _)
SendEachUntilFailure(w, entries) ==
    IF entries = <<>> \/ w.conns[Head(entries)[2]].state # "open" THEN w
    ELSE SendEachUntilFailure(Send(w, Head(entries)[2]), Tail(entries))

\* this.connections.forEach(conn => conn.send(data))
RECURSIVE SendEach(_, _)
SendEach(w, entries) ==
    IF entries = <<>> THEN w
    ELSE SendEach(Send(w, Head(entries)[2]), Tail(entries))

\* sendMessage(message)
SendMessageOp(w, message) ==
    Emit(SendEach(w, w.connections), ChatEvent(SenderName, message, <<"local", 0>>))

StopMediaKeepPeers(w, hasPeer) ==
    LET w1 == CloseEach(w, w.peers)
        w2 == [w1 EXCEPT !.connections = <<>>]
    IN  IF hasPeer THEN Destroy(w2) ELSE w2

StopMediaNoDestroy(w, hasPeer) ==
    LET w1 == CloseEach(w, w.peers)
    IN  [w1 EXCEPT !.peers = <<>>, !.connections = <<>>]

StopMediaUnguarded(w, hasPeer) ==
    LET w1 == CloseEach(w, w.peers)
        w2 == [w1 EXCEPT !.peers = <<>>, !.connections = <<>>]
    IN  IF hasPeer THEN Destroy(w2) ELSE Emit(w2, ErrorEvent)

\* stopMedia() from this.peers.forEach on; hasPeer is the test of this.peer
StopMediaOp(w, hasPeer) ==
    LET w1 == CloseEach(w, w.peers)
        w2 == [w1 EXCEPT !.peers = <<>>, !.connections = <<>>]
    IN  IF hasPeer THEN Destroy(w2) ELSE w2

\* errorHandler.report: the arrow function's this is not errorHandler, so
\* this.showError(...) raises a TypeError after events.emit('error', ...)
ReportThrows == TRUE

----------------------------------------------------------------------------
(* Tasks: one slot per createRoom()/joinRoom() invocation in flight.        *)
(*   media    awaiting getUserMedia in initializeMedia                      *)
(*   peer     awaiting the 'open' or 'error' event of the Peer it created   *)
(*   rooms    joinRoom awaiting getRoomPeers (a microtask)                  *)
(*   resolved, rejected   settled, the click handler's continuation pending *)
(*   hung     awaiting a Peer that was destroyed: the promise never settles *)

(* arg is the code passed to joinRoom.                                      *)

Task(kind, pc, arg) == [kind |-> kind, pc |-> pc, arg |-> arg]

IdleTask == Task("none", "idle", <<>>)

At(task, pc) == [task EXCEPT !.pc = pc]

\* no microtask is pending: the event loop takes the next callback
Quiescent == \A t \in TaskIds : tasks[t].pc \notin {"rooms", "resolved", "rejected"}

\* invocations that may still run UI.renderStudyRoom when they succeed
Rendering == { t \in TaskIds : tasks[t].pc \in {"media", "peer", "rooms", "resolved"} }

MayRender == renders + Cardinality(Rendering) < MaxRenders

\* the tasks whose initializePeer promise waits for the current Peer
Waiting == { t \in TaskIds : tasks[t].pc = "peer" }

\* destroying the current Peer leaves the promises waiting for it pending
Orphan(ts) == [t \in TaskIds |-> IF ts[t].pc = "peer" THEN At(ts[t], "hung") ELSE ts[t]]

\* the types of the peer:* events in out that channel src emitted
FiredBy(out, src) ==
    LET evs == SelectSeq(out, LAMBDA ev : IsPeerEvent(ev) /\ ev.src = src)
    IN  [i \in 1..Len(evs) |-> evs[i].type]

Extend(hist, n, out, kind) ==
    [c \in 1..n |->
        (IF c <= Len(hist) THEN hist[c] ELSE <<>>) \o FiredBy(out, <<kind, c>>)]

\* the calls and data connections of w that are not closed
NotClosed(w) ==
    { <<"call", c>> : c \in { d \in 1..Len(w.calls) : w.calls[d].state # "closed" } }
    \cup { <<"conn", c>> : c \in { d \in 1..Len(w.conns) : w.conns[d].state # "closed" } }

\* history: the channels still pending after the callback that worked on w
\* which were created before the channel recorded for their peer in
\* StudyRoom.peers (a call) or StudyRoom.connections (a data connection)
\* closed, in this callback or in an earlier one
StaleAfter(w) ==
    LET closedCall(c) ==
            /\ Recorded(peers, calls[c].peer, c)
            /\ calls[c].state # "closed" /\ w.calls[c].state = "closed"
        closedConn(c) ==
            /\ Recorded(connections, conns[c].peer, c)
            /\ conns[c].state \in {"open", "lost"} /\ w.conns[c].state = "closed"
        pending ==
            { <<"call", d>> : d \in { c \in 1..Len(w.calls) : w.calls[c].state = "negotiating" } }
            \cup { <<"conn", d>> : d \in { c \in 1..Len(w.conns) : w.conns[c].state = "opening" } }
        outlived ==
            { <<"call", d>> : d \in { d \in 1..Len(calls) :
                \E c \in 1..Len(calls) : calls[c].peer = calls[d].peer /\ closedCall(c) } }
            \cup { <<"conn", d>> : d \in { d \in 1..Len(conns) :
                \E c \in 1..Len(conns) : conns[c].peer = conns[d].peer /\ closedConn(c) } }
    IN  (published.stale \cup outlived) \cap pending

\* the state after a callback that worked on the record w
MaxEntries == 3      \* entries put into syncQueue
NumSyncs == 2        \* saveTask()/deleteTask()/syncTasks() invocations in flight at a time

SyncIds == 1..NumSyncs

\* a TaskManager invocation: where it is, the part of taskQueue that the for
\* loop of syncTasks has not finished, and the answers it has got so far
IdleSync == [pc |-> "idle", queue |-> <<>>, done |-> <<>>]

Commit(w) ==
    /\ peers' = w.peers
    /\ connections' = w.connections
    /\ calls' = w.calls
    /\ conns' = w.conns
    /\ emitted' = w.out
    /\ delivered' = w.sent
    /\ invoked' = w.ran
    /\ published' = [call |-> Extend(published.call, Len(w.calls), w.out, "call"),
                     conn |-> Extend(published.conn, Len(w.conns), w.out, "conn"),
                     stale |-> StaleAfter(w),
                     left |-> published.left]

\* remote peer ids are opaque: they are numbered in the order in which their
\* first channel appears
Known == { calls[c].peer : c \in 1..Len(calls) } \cup { conns[c].peer : c \in 1..Len(conns) }

NextPeer(p) == p \in Known \/ (\A q \in PeerIds : q < p => q \in Known)

\* the lowest free slot takes the next invocation
FreeSlot(t) ==
    /\ tasks[t].pc = "idle"
    /\ \A t2 \in TaskIds : t2 < t => tasks[t2].pc # "idle"

Init ==
    /\ roomCode = NoCode
    /\ localStream = NoStream
    /\ peer = "null"
    /\ peers = <<>>
    /\ connections = <<>>
    /\ calls = <<>>
    /\ conns = <<>>
    /\ liveStreams = {}
    /\ tasks = [t \in TaskIds |-> IdleTask]
    /\ renders = 0
    /\ emitted = <<>>
    /\ delivered = {}
    /\ published = [call |-> <<>>, conn |-> <<>>, stale |-> {}, left |-> {}]
    /\ listeners = <<>>
    /\ invoked = <<>>
    /\ syncQueue = {}
    /\ syncRuns = [r \in SyncIds |-> IdleSync]
    /\ entryIds = 0

----------------------------------------------------------------------------
(* Commands *)

\* createRoom() up to the await in initializeMedia.  The value createRoom
\* returns in the end is discarded by the click handler and is not modelled.
CreateRoom(t, id) ==
    /\ Quiescent
    /\ MayRender
    /\ FreeSlot(t)
    /\ roomCode' = RoomCodeOf(id)
    /\ tasks' = [tasks EXCEPT ![t] = Task("create", "media", <<>>)]
    /\ Commit(World)
    /\ UNCHANGED <<localStream, peer, liveStreams, renders, listeners>>
    /\ UNCHANGED offline

\* joinRoom(code) up to the await in initializeMedia
JoinRoom(t, code) ==
    /\ Quiescent
    /\ MayRender
    /\ FreeSlot(t)
    /\ roomCode' = ToUpperCase(code)
    /\ tasks' = [tasks EXCEPT ![t] = Task("join", "media", code)]
    /\ Commit(World)
    /\ UNCHANGED <<localStream, peer, liveStreams, renders, listeners>>
    /\ UNCHANGED offline

\* getUserMedia resolves: the rest of initializeMedia, then initializePeer up
\* to the promise it returns
MediaOk(t) ==
    /\ Quiescent
    /\ tasks[t].pc = "media"
    /\ \E s \in StreamIds :
        /\ s \notin liveStreams
        /\ \A s2 \in StreamIds : s2 < s => s2 \in liveStreams
        /\ localStream' = s
        /\ liveStreams' = liveStreams \cup {s}
    /\ LET w1 == Emit(World, Event("media:initialized", NoPeer, "-", "-", <<"local", 0>>))
           w2 == IF peer # "null" THEN Destroy(w1) ELSE w1
       IN  Commit(w2)
    /\ peer' = "opening"
    /\ tasks' = [Orphan(tasks) EXCEPT ![t] = At(tasks[t], "peer")]
    /\ UNCHANGED <<roomCode, renders, listeners>>
    /\ UNCHANGED offline

\* getUserMedia rejects: the catch of initializeMedia; createRoom/joinRoom
\* reject with the TypeError of report or with the Error thrown after it
MediaFail(t) ==
    /\ Quiescent
    /\ tasks[t].pc = "media"
    /\ tasks' = [tasks EXCEPT ![t] = At(tasks[t], "rejected")]
    /\ Commit(Emit(World, ErrorEvent))
    /\ UNCHANGED <<roomCode, localStream, peer, liveStreams, renders, listeners>>
    /\ UNCHANGED offline

\* this.peer.on('open', ...): setupPeerEvents, resolve; createRoom returns,
\* joinRoom goes on to connectToRoom and awaits getRoomPeers
PeerOpen ==
    /\ Quiescent
    /\ peer = "opening"
    /\ peer' = "open"
    /\ tasks' = [t \in TaskIds |->
                   IF t \in Waiting
                   THEN At(tasks[t], IF tasks[t].kind = "join" THEN "rooms" ELSE "resolved")
                   ELSE tasks[t]]
    /\ Commit(World)
    /\ UNCHANGED <<roomCode, localStream, liveStreams, renders, listeners>>
    /\ UNCHANGED offline

\* this.peer.on('error', ...): errorHandler.report, then reject(error)
PeerError ==
    /\ Quiescent
    /\ peer = "opening"
    /\ peer' = "errored"
    /\ tasks' = [t \in TaskIds |->
                   IF t \in Waiting /\ ~ReportThrows
                   THEN At(tasks[t], "rejected")
                   ELSE tasks[t]]
    /\ Commit(Emit(World, ErrorEvent))
    /\ UNCHANGED <<roomCode, localStream, liveStreams, renders, listeners>>
    /\ UNCHANGED offline

\* connectToRoom after the await: one connectToPeer per room peer
ConnectToRoom(t) ==
    /\ tasks[t].pc = "rooms"
    /\ tasks' = [tasks EXCEPT ![t] = At(tasks[t], "resolved")]
    /\ Commit(ConnectToAll(World, GetRoomPeers))
    /\ UNCHANGED <<roomCode, localStream, peer, liveStreams, renders, listeners>>
    /\ UNCHANGED offline

\* the click/submit handler after its await: renderStudyRoom on success,
\* showError in the catch
Settled(t) ==
    /\ tasks[t].pc \in {"resolved", "rejected"}
    /\ renders' = IF tasks[t].pc = "resolved" THEN renders + 1 ELSE renders
    /\ listeners' = IF tasks[t].pc = "resolved"
                     THEN RenderStudyRoom(listeners, renders + 1)
                     ELSE listeners
    /\ tasks' = [tasks EXCEPT ![t] = IdleTask]
    /\ Commit(World)
    /\ UNCHANGED <<roomCode, localStream, peer, liveStreams>>
    /\ UNCHANGED offline

\* the leave handler, once the user has confirmed: stopMedia(),
\* roomCode = null, renderStudyRoom().
\* stopMedia leaves every channel closed and unreferenced: the model drops
\* them and their history.
LeaveRoom ==
    /\ Quiescent
    /\ MayRender
    /\ localStream' = NoStream
    /\ liveStreams' = liveStreams \ {localStream}
    /\ LET w == StopMediaOp(World, peer # "null")
       IN  /\ peers' = w.peers
           /\ connections' = w.connections
           /\ emitted' = w.out
           /\ delivered' = w.sent
           /\ invoked' = w.ran
           /\ published' = [call |-> <<>>, conn |-> <<>>, stale |-> {},
                            left |-> NotClosed(w)]
    /\ calls' = <<>>
    /\ conns' = <<>>
    /\ peer' = "null"
    /\ tasks' = IF peer # "null" THEN Orphan(tasks) ELSE tasks
    /\ roomCode' = NoCode
    /\ renders' = renders + 1
    /\ listeners' = RenderStudyRoom(listeners, renders + 1)
    /\ UNCHANGED offline

\* sendMessage(message), from the send button
SendMessage(text) ==
    /\ Quiescent
    /\ Commit(SendMessageOp(World, text))
    /\ UNCHANGED <<roomCode, localStream, peer, liveStreams, tasks, renders, listeners>>
    /\ UNCHANGED offline

\* connectToPeer(peerId) on an open transport identity
ConnectToPeer(p) ==
    /\ Quiescent
    /\ peer = "open"
    /\ NextPeer(p)
    /\ Len(calls) < MaxCalls
    /\ Len(conns) < MaxConns
    /\ Commit(ConnectToPeerOp(World, p))
    /\ UNCHANGED <<roomCode, localStream, peer, liveStreams, tasks, renders, listeners>>
    /\ UNCHANGED offline

----------------------------------------------------------------------------
(* Transport callbacks *)

\* this.peer.on('call', ...): call.answer(localStream), handleCall(call)
IncomingCall(p) ==
    /\ Quiescent
    /\ peer = "open"
    /\ NextPeer(p)
    /\ Len(calls) < MaxCalls
    /\ LET w1 == TransportCall(World, p)
       IN  Commit(HandleCall(w1, Len(w1.calls)))
    /\ UNCHANGED <<roomCode, localStream, peer, liveStreams, tasks, renders, listeners>>
    /\ UNCHANGED offline

\* this.peer.on('connection', ...): handleConnection(conn)
IncomingConnection(p) ==
    /\ Quiescent
    /\ peer = "open"
    /\ NextPeer(p)
    /\ Len(conns) < MaxConns
    /\ LET w1 == TransportConnect(World, p)
       IN  Commit(HandleConnection(w1, Len(w1.conns)))
    /\ UNCHANGED <<roomCode, localStream, peer, liveStreams, tasks, renders, listeners>>
    /\ UNCHANGED offline

\* the remote stream of call c arrives
CallStream(c) ==
    /\ Quiescent
    /\ calls[c].state = "negotiating"
    /\ Commit(OnCallStream([World EXCEPT !.calls[c].state = "streaming"], c))
    /\ UNCHANGED <<roomCode, localStream, peer, liveStreams, tasks, renders, listeners>>
    /\ UNCHANGED offline

\* call c is closed by the remote side or fails
CallClose(c) ==
    /\ Quiescent
    /\ calls[c].state # "closed"
    /\ Commit(CloseCall(World, c))
    /\ UNCHANGED <<roomCode, localStream, peer, liveStreams, tasks, renders, listeners>>
    /\ UNCHANGED offline

\* data connection c opens
ConnOpen(c) ==
    /\ Quiescent
    /\ conns[c].state = "opening"
    /\ Commit(OnConnOpen([World EXCEPT !.conns[c].state = "open"], c))
    /\ UNCHANGED <<roomCode, localStream, peer, liveStreams, tasks, renders, listeners>>
    /\ UNCHANGED offline

\* a payload arrives on data connection c
ConnData(c, message) ==
    /\ Quiescent
    /\ conns[c].state = "open"
    /\ Commit(OnConnData(World, c, message))
    /\ UNCHANGED <<roomCode, localStream, peer, liveStreams, tasks, renders, listeners>>
    /\ UNCHANGED offline

\* the channel under data connection c goes down; its 'close' event is
\* dispatched later (a step of SendSpec)
ConnLost(c) ==
    /\ Quiescent
    /\ conns[c].state = "open"
    /\ Commit([World EXCEPT !.conns[c].state = "lost"])
    /\ UNCHANGED <<roomCode, localStream, peer, liveStreams, tasks, renders, listeners>>
    /\ UNCHANGED offline

\* data connection c is closed by the remote side or fails
ConnClose(c) ==
    /\ Quiescent
    /\ conns[c].state # "closed"
    /\ Commit(CloseConn(World, c))
    /\ UNCHANGED <<roomCode, localStream, peer, liveStreams, tasks, renders, listeners>>
    /\ UNCHANGED offline

----------------------------------------------------------------------------

Transport ==
    \/ \E p \in PeerIds : IncomingCall(p)
    \/ \E p \in PeerIds : IncomingConnection(p)
    \/ \E c \in 1..Len(calls) : CallStream(c)
    \/ \E c \in 1..Len(calls) : CallClose(c)
    \/ \E c \in 1..Len(conns) : ConnOpen(c)
    \/ \E c \in 1..Len(conns), message \in Payloads : ConnData(c, message)
    \/ \E c \in 1..Len(conns) : ConnClose(c)

Next ==
    \/ \E t \in TaskIds, id \in SampleIds : CreateRoom(t, id)
    \/ \E t \in TaskIds, code \in SampleCodes : JoinRoom(t, code)
    \/ \E t \in TaskIds : MediaOk(t)
    \/ \E t \in TaskIds : MediaFail(t)
    \/ PeerOpen
    \/ PeerError
    \/ \E t \in TaskIds : ConnectToRoom(t)
    \/ \E t \in TaskIds : Settled(t)
    \/ LeaveRoom
    \/ \E text \in Texts : SendMessage(text)
    \/ \E p \in PeerIds : ConnectToPeer(p)
    \/ Transport

Spec == Init /\ [][Next]_vars

\* createRoom and joinRoom on many identifiers and codes, without remote peers
NextCode ==
    \/ \E t \in TaskIds, id \in AllIds : CreateRoom(t, id)
    \/ \E t \in TaskIds, code \in AllCodes : JoinRoom(t, code)
    \/ \E t \in TaskIds : MediaOk(t)
    \/ \E t \in TaskIds : MediaFail(t)
    \/ PeerOpen
    \/ \E t \in TaskIds : ConnectToRoom(t)
    \/ \E t \in TaskIds : Settled(t)

CodeSpec == Init /\ [][NextCode]_vars

----------------------------------------------------------------------------
(* Messaging over data connections whose channel can go down before the     *)
(* 'close' event of the connection is dispatched.                          *)

NextSend ==
    \/ \E t \in TaskIds, id \in SampleIds : CreateRoom(t, id)
    \/ \E t \in TaskIds : MediaOk(t)
    \/ PeerOpen
    \/ \E t \in TaskIds : Settled(t)
    \/ \E p \in PeerIds : IncomingConnection(p)
    \/ \E c \in 1..Len(conns) : ConnOpen(c)
    \/ \E c \in 1..Len(conns) : ConnLost(c)
    \/ \E c \in 1..Len(conns) : ConnClose(c)
    \/ \E text \in Texts : SendMessage(text)

SendSpec == Init /\ [][NextSend]_vars

----------------------------------------------------------------------------
(* The event bus on its own: any sequence of on, off and emit calls.       *)

coordinator ==
    <<roomCode, localStream, peer, peers, connections, calls, conns,
      liveStreams, tasks, renders, emitted, delivered, published>>

\* events.on(event, callback)
BusOn(event, callback) ==
    /\ listeners' = On(listeners, event, callback)
    /\ invoked' = <<>>
    /\ UNCHANGED coordinator
    /\ UNCHANGED offline

\* events.off(event, callback)
BusOff(event, callback) ==
    /\ listeners' = Off(listeners, event, callback)
    /\ invoked' = <<>>
    /\ UNCHANGED coordinator
    /\ UNCHANGED offline

\* events.emit(event, data) where the callbacks of throwing throw
BusEmit(event, data, throwing) ==
    /\ invoked' = EmitOp(listeners, event, data, throwing)
    /\ UNCHANGED listeners
    /\ UNCHANGED coordinator
    /\ UNCHANGED offline

NextBus ==
    \/ \E event \in BusEvents, callback \in BusCallbacks : BusOn(event, callback)
    \/ \E event \in BusEvents, callback \in BusCallbacks : BusOff(event, callback)
    \/ \E event \in BusEvents, data \in BusData, throwing \in SUBSET BusCallbacks :
          BusEmit(event, data, throwing)

BusSpec == Init /\ [][NextBus]_vars

----------------------------------------------------------------------------
(* Properties *)

IdleSession ==
    /\ localStream = NoStream
    /\ peer = "null"
    /\ peers = <<>>
    /\ connections = <<>>
    /\ roomCode = NoCode

NoDuplicateKey(m) == \A i, j \in 1..Len(m) : m[i][1] = m[j][1] => i = j

OpenConns == { c \in 1..Len(conns) : conns[c].state = "open" }

\* the peers that have a data connection in state open
OpenPeers == { conns[c].peer : c \in OpenConns }

\* the events of one type published for peer p by its calls and by its connections
CallEvents(p, type) ==
    { <<c, i>> \in (1..Len(calls)) \X (1..2) :
        /\ calls[c].peer = p
        /\ i <= Len(published.call[c])
        /\ published.call[c][i] = type }

ConnEvents(p, type) ==
    { <<c, i>> \in (1..Len(conns)) \X (1..2) :
        /\ conns[c].peer = p
        /\ i <= Len(published.conn[c])
        /\ published.conn[c][i] = type }

Published(p, type) == Cardinality(CallEvents(p, type)) + Cardinality(ConnEvents(p, type))

LocalEchoes(out) == SelectSeq(out, LAMBDA ev : ev.type = "chat:message" /\ ev.src = <<"local", 0>>)

\* p has an entry whose call or connection is not closed
LiveRecord(p) ==
    \/ \E i \in 1..Len(peers) : peers[i][1] = p /\ calls[peers[i][2]].state # "closed"
    \/ \E i \in 1..Len(connections) :
          connections[i][1] = p /\ conns[connections[i][2]].state # "closed"

\* C1: when the leave handler (stopMedia, roomCode = null) has run, StudyRoom.peers
\* and StudyRoom.connections are empty and StudyRoom.localStream is null, whatever
\* was connected before.
C1_LeaveEmptiesRegistry ==
    [][LeaveRoom => (peers' = <<>> /\ connections' = <<>> /\ localStream' = NoStream)]_vars

\* a leave that closed the channels of two connected peers
C1_Witness ==
    /\ peer = "null"
    /\ localStream = NoStream
    /\ peers = <<>>
    /\ connections = <<>>
    /\ renders > 0
    /\ \E i, j \in 1..Len(emitted) :
          /\ emitted[i].type = "peer:disconnect" /\ emitted[i].src[1] = "conn"
          /\ emitted[j].type = "peer:disconnect" /\ emitted[j].src[1] = "conn"
          /\ emitted[i].peerId # emitted[j].peerId

\* C2: StudyRoom.peers holds at most one call and StudyRoom.connections at most one
\* connection per peer id, after any sequence of connectToPeer calls and
\* transport callbacks.
C2_OneRecordPerPeer == NoDuplicateKey(peers) /\ NoDuplicateKey(connections)

\* two attempts with the same peer, both with an open data connection and a call
\* that is not closed
C2_Witness ==
    /\ Len(calls) >= 2 /\ Len(conns) >= 2
    /\ calls[1].peer = calls[2].peer /\ conns[1].peer = conns[2].peer
    /\ conns[1].peer = calls[1].peer
    /\ calls[1].state # "closed" /\ calls[2].state # "closed"
    /\ conns[1].state = "open" /\ conns[2].state = "open"
    /\ Len(peers) = 1 /\ Len(connections) = 1

\* C3: connectToPeer(p) while p has a record whose call or connection is not
\* closed starts no call and no connection and leaves the record unchanged.
C3_ConnectIsNoOp ==
    [][\A p \in PeerIds :
          (LiveRecord(p) /\ ConnectToPeer(p))
              => UNCHANGED <<calls, conns, peers, connections>>]_vars

\* C4: sendMessage delivers the payload to exactly the peers that have an open
\* data connection and publishes exactly one local chat:message.
C4_SendReachesOpenPeers ==
    [][\A text \in Texts :
          SendMessage(text)
              => /\ { conns[c].peer : c \in delivered' } = OpenPeers
                 /\ Len(LocalEchoes(emitted')) = 1]_vars

\* C5: for a peer with one media call, which streamed and then closed, exactly
\* one peer:stream and exactly one peer:disconnect have been published for that
\* peer, and its data entry is still in the registry while its connection is open.
C5_OneStreamOneDisconnect ==
    \A c \in 1..Len(calls) :
        (/\ published.call[c] = <<"peer:stream", "peer:disconnect">>
         /\ \A d \in 1..Len(calls) : calls[d].peer = calls[c].peer => d = c)
            => /\ Published(calls[c].peer, "peer:stream") = 1
               /\ Published(calls[c].peer, "peer:disconnect") = 1
               /\ (calls[c].peer \in OpenPeers => MapHas(connections, calls[c].peer))

IsRoomCode(code) ==
    /\ Len(code) = CodeLen
    /\ \A i \in 1..Len(code) : IsUpper(code[i]) \/ code[i] \in Digits

\* t goes from idle to the first await of createRoom / joinRoom
Starts(t, kind) == tasks[t].pc = "idle" /\ tasks'[t].pc = "media" /\ tasks'[t].kind = kind

HasNoLower(code) == code = NoCode \/ \A i \in 1..Len(code) : ~IsLower(code[i])

\* C8: joinRoom(code) sets roomCode to the uppercase form of code when it starts,
\* and when the rendezvous lookup (getRoomPeers) is made roomCode holds no
\* lowercase letter.
C8_UppercaseBeforeLookup ==
    [][\A t \in TaskIds :
          /\ Starts(t, "join") => roomCode' = ToUpperCase(tasks'[t].arg)
          /\ tasks'[t].pc = "rooms"
                => (tasks[t].pc = "peer" /\ HasNoLower(roomCode'))]_vars

\* joinRoom("aBz") has reached the lookup with roomCode "ABZ"
C8_Witness ==
    \E t \in TaskIds :
        /\ tasks[t].pc = "rooms"
        /\ tasks[t].arg = <<"a", "B", "z">>
        /\ roomCode = <<"A", "B", "Z">>

\* C9: when getUserMedia fails during createRoom/joinRoom the operation rejects
\* and the session is Idle again: roomCode null, localStream null, no Peer.
C9_IdleAfterMediaFailure ==
    [][\A t \in TaskIds :
          MediaFail(t)
              => /\ tasks'[t].pc = "rejected"
                 /\ roomCode' = NoCode
                 /\ localStream' = NoStream
                 /\ peer' = "null"]_vars

\* C10: once the Peer a createRoom/joinRoom invocation waits for has reported
\* an error, the invocation is rejected, not left pending.
C10_RejectedOnTransportError ==
    \A t \in TaskIds : ~(tasks[t].pc = "peer" /\ peer = "errored")

\* C11: when the Peer created by createRoom/joinRoom reports an error (the
\* capture stream was acquired before), the session is back in its pre-attempt
\* state: roomCode null, the capture stream stopped and localStream null, no Peer.
C11_IdleAfterTransportFailure ==
    [][PeerError
          => /\ roomCode' = NoCode
             /\ localStream' = NoStream
             /\ localStream \notin liveStreams'
             /\ peer' = "null"]_vars

\* one of the callbacks of a call or of a data connection: stream, close,
\* open, data, close
ChannelCallback ==
    \/ \E c \in 1..Len(calls) : CallStream(c) \/ CallClose(c)
    \/ \E c \in 1..Len(conns) : ConnOpen(c) \/ ConnClose(c)
    \/ \E c \in 1..Len(conns), message \in Payloads : ConnData(c, message)

RoomMembers == PeerIds

Dialled(p) ==
    /\ \E c \in 1..Len(calls') : calls'[c].peer = p
    /\ \E c \in 1..Len(conns') : conns'[c].peer = p

\* C14: when the connectToRoom step of joinRoom has run, a media call and a data
\* connection to every member of the joined room have been started (the
\* precondition for every pair of participants to get connected).
C14_JoinDialsEveryMember ==
    [][\A t \in TaskIds : ConnectToRoom(t) => \A p \in RoomMembers : Dialled(p)]_vars

\* C15: sendMessage in the Idle state sends the payload to no connection and
\* emits no chat:message.
C15_SendOnlyWhenActive ==
    [][\A text \in Texts :
          (IdleSession /\ SendMessage(text))
              => (delivered' = {} /\ emitted' = <<>>)]_vars

\* channel c is in this state before and after the step
StaysIn(before, after, c, state) ==
    /\ before[c].state = state
    /\ c <= Len(after)
    /\ after[c].state = state

\* C18: the data connection recorded for a peer stays the recorded one as long
\* as it is open, and the call recorded for a peer as long as it is streaming:
\* a later channel of the same kind and peer neither replaces it nor, when it
\* closes, removes it.
C18_FirstOpenWins ==
    [][\A p \in PeerIds :
          /\ (MapHas(connections, p) /\ StaysIn(conns, conns', MapGet(connections, p), "open"))
                => (MapHas(connections', p) /\ MapGet(connections', p) = MapGet(connections, p))
          /\ (MapHas(peers, p) /\ StaysIn(calls, calls', MapGet(peers, p), "streaming"))
                => (MapHas(peers', p) /\ MapGet(peers', p) = MapGet(peers, p))]_vars

\* p has a call or a data connection that is not closed
HasLiveChannel(p) ==
    \/ \E c \in 1..Len(calls) : calls[c].peer = p /\ calls[c].state # "closed"
    \/ \E c \in 1..Len(conns) : conns[c].peer = p /\ conns[c].state # "closed"

\* C19: a peer has an entry in StudyRoom.peers or StudyRoom.connections if and
\* only if it has a call or a data connection that is not closed.
C19_RegistryInvariant ==
    \A p \in PeerIds : (MapHas(peers, p) \/ MapHas(connections, p)) <=> HasLiveChannel(p)

\* C20: after the data connection recorded for a peer has gone from open to
\* closed, a connection of that peer created before the close does not open
\* (only a new attempt can make the peer's data state open again); likewise a
\* call created before the call recorded for its peer closed does not start
\* streaming.
C20_ClosedStaysClosed ==
    [][/\ \A c \in 1..Len(conns) : ConnOpen(c) => <<"conn", c>> \notin published.stale
       /\ \A c \in 1..Len(calls) : CallStream(c) => <<"call", c>> \notin published.stale]_vars

IsSubscribed(event, callback) == InSeq(Subscribers(listeners, event), callback)

\* the number of times callback was run according to log
RunsOf(log, callback) == Cardinality({ i \in 1..Len(log) : log[i].callback = callback })

\* C16: when events.emit(e, d) runs and some subscribers of e throw, every
\* subscriber of e is still invoked with d during that emit.
C16_ThrowingSubscriberIsolated ==
    [][\A event \in BusEvents, data \in BusData, throwing \in SUBSET BusCallbacks :
          BusEmit(event, data, throwing)
              => \A cb \in BusCallbacks :
                    IsSubscribed(event, cb) => InSeq(invoked', Invocation(cb, data))]_vars

\* C17: when no subscriber throws, events.emit(e, d) has run every callback
\* subscribed to e exactly once, with d, and no other callback when it returns;
\* events.off(e, cb) leaves cb unsubscribed from e, so later emits of e do not
\* run it.
C17_EmitRunsEachOnce ==
    [][/\ \A event \in BusEvents, data \in BusData :
            BusEmit(event, data, {})
                => /\ \A cb \in BusCallbacks :
                        RunsOf(invoked', cb) = IF IsSubscribed(event, cb) THEN 1 ELSE 0
                   /\ \A i \in 1..Len(invoked') : invoked'[i].data = data
       /\ \A event \in BusEvents, cb \in BusCallbacks :
            BusOff(event, cb) => ~InSeq(Subscribers(listeners', event), cb)]_vars

\* an emit ran the two subscribers of one event and not the subscriber of the
\* other event
C17_Witness ==
    \E event, other \in BusEvents, cb1, cb2, cb3 \in BusCallbacks :
        /\ event # other
        /\ Cardinality({cb1, cb2, cb3}) = 3
        /\ Subscribers(listeners, event) = <<cb1, cb2>>
        /\ Subscribers(listeners, other) = <<cb3>>
        /\ invoked = <<Invocation(cb1, "d2"), Invocation(cb2, "d2")>>

\* C21: the leave handler leaves no call and no data connection of the session
\* unclosed, also none that a duplicate replaced in StudyRoom.peers or
\* StudyRoom.connections, and sets StudyRoom.peer to null.
C21_LeaveClosesEverything ==
    [][LeaveRoom => (published'.left = {} /\ peer' = "null")]_vars

\* a leave has closed two calls of the same peer, one of which the other had
\* replaced in StudyRoom.peers, and an open data connection
C21_Witness ==
    /\ peer = "null"
    /\ calls = <<>> /\ conns = <<>>
    /\ \E i, j, k \in 1..Len(emitted) :
          /\ emitted[i].type = "peer:disconnect" /\ emitted[i].src = <<"call", 1>>
          /\ emitted[j].type = "peer:disconnect" /\ emitted[j].src = <<"call", 2>>
          /\ emitted[i].peerId = emitted[j].peerId
          /\ emitted[k].type = "peer:disconnect" /\ emitted[k].src[1] = "conn"

\* C22: a payload of type 'chat' arriving on a data connection makes exactly one
\* chat:message event with the sender and content of the payload; a payload of
\* another type makes no event; neither changes the state of the coordinator.
C22_InboundDispatch ==
    [][\A c \in 1..Len(conns), message \in Payloads :
          ConnData(c, message)
              => /\ emitted' = IF message.type = "chat"
                               THEN <<ChatEvent(message.sender, message.content, <<"conn", c>>)>>
                               ELSE <<>>
                 /\ UNCHANGED <<roomCode, localStream, peer, peers, connections, calls,
                                conns, liveStreams, tasks, listeners>>]_vars

\* a chat payload of bob has arrived on an open data connection
C22_Witness ==
    /\ Len(emitted) = 1
    /\ emitted[1].type = "chat:message"
    /\ emitted[1].sender = "bob" /\ emitted[1].content = "yo"
    /\ emitted[1].src[1] = "conn"
    /\ conns[emitted[1].src[2]].state = "open"

Attempted(p) ==
    /\ \E c \in 1..Len(calls) : calls[c].peer = p
    /\ \E c \in 1..Len(conns) : conns[c].peer = p

\* C24: a peer whose call and data connection of connectToPeer have closed
\* without ever streaming or opening has no entry in StudyRoom.peers or StudyRoom.connections.
C24_FailedAttemptLeavesNoRecord ==
    \A p \in PeerIds :
        (/\ Attempted(p)
         /\ ~HasLiveChannel(p)
         /\ Published(p, "peer:stream") = 0
         /\ Published(p, "peer:connect") = 0)
            => (~MapHas(peers, p) /\ ~MapHas(connections, p))

\* the events of a call: registered by connectToPeer or the 'call' handler,
\* stream received, closed
MediaEvent ==
    \/ \E p \in PeerIds : ConnectToPeer(p) \/ IncomingCall(p)
    \/ \E c \in 1..Len(calls) : CallStream(c) \/ CallClose(c)

\* the events of a data connection: received by the 'connection' handler,
\* opened, data received, closed
DataEvent ==
    \/ \E p \in PeerIds : IncomingConnection(p)
    \/ \E c \in 1..Len(conns) : ConnOpen(c) \/ ConnClose(c)
    \/ \E c \in 1..Len(conns), message \in Payloads : ConnData(c, message)

\* C25: an event of a call leaves StudyRoom.connections unchanged and an event
\* of a data connection leaves StudyRoom.peers unchanged.
C25_ChannelKindsIndependent ==
    [][/\ connections' = connections \/ ~MediaEvent
       /\ peers' = peers \/ ~DataEvent]_vars

\* the call of a peer has just closed while the peer's data connection is open
\* and recorded
C25_Witness ==
    /\ Len(emitted) = 1
    /\ emitted[1].type = "peer:disconnect"
    /\ emitted[1].src[1] = "call"
    /\ emitted[1].src[2] <= Len(calls)
    /\ calls[emitted[1].src[2]].state = "closed"
    /\ MapHas(connections, emitted[1].peerId)
    /\ conns[MapGet(connections, emitted[1].peerId)].state = "open"
    /\ MapHas(peers, emitted[1].peerId)

\* C26: from the step that sets roomCode until the leave handler resets it, no
\* step changes roomCode, a further createRoom or joinRoom included.
C26_RoomCodeImmutable ==
    [][(roomCode # NoCode /\ ~LeaveRoom) => roomCode' = roomCode]_vars

\* C27: when the leave handler has run, no capture stream acquired by an
\* earlier createRoom/joinRoom has a track that is still running.
C27_LeaveStopsAllTracks ==
    [][LeaveRoom => liveStreams' = {}]_vars

UiEvents == {"chat:message", "peer:stream", "peer:disconnect"}

\* the number of subscriber calls of log that were given ev
HandlingsOf(log, ev) == Cardinality({ i \in 1..Len(log) : log[i].data = ev })

\* C28: once UI.renderStudyRoom has run, every chat:message, peer:stream and
\* peer:disconnect event that is emitted is handled by exactly one subscriber
\* call, however often renderStudyRoom has run.
C28_UiHandlesEachEventOnce ==
    [][renders >= 1
          => \A i \in 1..Len(emitted') :
                emitted'[i].type \in UiEvents => HandlingsOf(invoked', emitted'[i]) = 1]_vars

\* C29: while the room is set and the Peer is open, a peer has an entry in StudyRoom.connections if
\* and only if one of its data connections is open.
C29_EntryIffOpenConnection ==
    (peer = "open" /\ roomCode # NoCode)
        => \A p \in PeerIds : MapHas(connections, p) <=> p \in OpenPeers

(***************************************************************************)
(* The offline queue of TaskManager                                        *)
(***************************************************************************)

\* the object a put into 'syncQueue' stores; data and timestamp are not read
\* again by syncTasks apart from building the request
Entry(id, type, action) == [id |-> id, type |-> type, action |-> action]

\* DBManager.put: the store's keyPath is 'id', a put replaces the entry of that id
DbPut(store, item) == { e \in store : e.id # item.id } \cup {item}

\* DBManager.delete
DbDelete(store, id) == { e \in store : e.id # id }

\* DBManager.getAll: the entries in key order
RECURSIVE DbGetAll(_)
DbGetAll(store) ==
    IF store = {} THEN <<>>
    ELSE LET first == CHOOSE e \in store : \A e2 \in store : e.id <= e2.id
         IN  <<first>> \o DbGetAll(store \ {first})

\* queue.filter(item => item.type === 'task')
TaskQueue(store) == SelectSeq(DbGetAll(store), LAMBDA item : item.type = "task")

\* what the server does with the request of an entry: an OK response, a
\* response that is not OK, or no response (fetch rejects)
Outcomes == {"ok", "notok", "throw"}

SyncItemWhateverResponse(store, item, outcome) ==
    IF outcome # "throw" THEN DbDelete(store, item.id) ELSE store

\* the body of the for loop of syncTasks once the request has been answered
SyncItem(store, item, outcome) ==
    IF outcome = "ok" THEN DbDelete(store, item.id) ELSE store

\* the put of saveTask/deleteTask/saveNote with a fresh id
Enqueue(type, action) ==
    /\ entryIds < MaxEntries
    /\ entryIds' = entryIds + 1
    /\ syncQueue' = DbPut(syncQueue, Entry(entryIds + 1, type, action))

studyRoom == <<coordinator, listeners, invoked>>

\* TaskManager.saveTask(task) up to the test of navigator.onLine
SaveTask(r, action) ==
    /\ syncRuns[r].pc = "idle"
    /\ Enqueue("task", action)
    /\ syncRuns' = [syncRuns EXCEPT ![r] = [IdleSync EXCEPT !.pc = "queued"]]
    /\ UNCHANGED studyRoom

\* TaskManager.deleteTask(id) up to the test of navigator.onLine
DeleteTask(r) ==
    /\ syncRuns[r].pc = "idle"
    /\ Enqueue("task", "delete")
    /\ syncRuns' = [syncRuns EXCEPT ![r] = [IdleSync EXCEPT !.pc = "queued"]]
    /\ UNCHANGED studyRoom

\* the put of NotesManager.saveNote(note)
SaveNote(action) ==
    /\ Enqueue("note", action)
    /\ UNCHANGED syncRuns
    /\ UNCHANGED studyRoom

\* navigator.onLine is false: saveTask/deleteTask return without a sync
Offline(r) ==
    /\ syncRuns[r].pc = "queued"
    /\ syncRuns' = [syncRuns EXCEPT ![r] = IdleSync]
    /\ UNCHANGED <<syncQueue, entryIds>>
    /\ UNCHANGED studyRoom

\* syncTasks() called by saveTask/deleteTask, by the 'online' handler or by the
\* initial sync: the queue is read and the request of its first entry sent
SyncTasks(r) ==
    /\ syncRuns[r].pc \in {"idle", "queued"}
    /\ LET taskQueue == TaskQueue(syncQueue)
       IN  syncRuns' = [syncRuns EXCEPT ![r] =
                          [pc |-> IF taskQueue = <<>> THEN "idle" ELSE "fetch",
                           queue |-> taskQueue,
                           done |-> <<>>]]
    /\ UNCHANGED <<syncQueue, entryIds>>
    /\ UNCHANGED studyRoom

\* the request of the entry at the head of the loop is answered; the loop goes
\* on to the request of the next entry
Respond(r, outcome) ==
    /\ syncRuns[r].pc = "fetch"
    /\ LET item == Head(syncRuns[r].queue)
           rest == Tail(syncRuns[r].queue)
       IN  /\ syncQueue' = SyncItem(syncQueue, item, outcome)
           /\ syncRuns' = [syncRuns EXCEPT ![r] =
                             [pc |-> IF rest = <<>> THEN "idle" ELSE "fetch",
                              queue |-> rest,
                              done |-> Append(@.done, <<item.id, outcome>>)]]
    /\ UNCHANGED entryIds
    /\ UNCHANGED studyRoom

NextSync ==
    \/ \E r \in SyncIds, action \in {"create", "update"} : SaveTask(r, action)
    \/ \E r \in SyncIds : DeleteTask(r)
    \/ \E action \in {"create", "update"} : SaveNote(action)
    \/ \E r \in SyncIds : Offline(r)
    \/ \E r \in SyncIds : SyncTasks(r)
    \/ \E r \in SyncIds, outcome \in Outcomes : Respond(r, outcome)

SyncSpec == Init /\ [][NextSync]_vars

Queued(id) == \E e \in syncQueue : e.id = id

\* C30: a step removes an entry from syncQueue only if it is a task entry whose
\* request has just been answered with an OK response; a request that fails
\* or is answered with a response that is not OK leaves the queue as it is.
C30_SyncRemovesOnlyAcknowledged ==
    [][/\ \A e \in syncQueue \ syncQueue' :
             /\ e.type = "task"
             /\ \E r \in SyncIds :
                   Respond(r, "ok") /\ Head(syncRuns[r].queue).id = e.id
       /\ \A r \in SyncIds, outcome \in Outcomes \ {"ok"} :
             Respond(r, outcome) => syncQueue' = syncQueue]_vars

\* a sync has finished in which one request was refused or failed and another
\* was answered OK: the first entry is still queued, the second is not, and a
\* note entry that was queued all along is still there
C30_Witness ==
    \E r \in SyncIds :
        /\ syncRuns[r].pc = "idle"
        /\ \E i, j \in 1..Len(syncRuns[r].done) :
              /\ syncRuns[r].done[i][2] \in {"notok", "throw"}
              /\ Queued(syncRuns[r].done[i][1])
              /\ syncRuns[r].done[j][2] = "ok"
              /\ ~Queued(syncRuns[r].done[j][1])
        /\ \E e \in syncQueue : e.type = "note" /\ e.id = 1

====
